---- MODULE Spec2Model ----
(***************************************************************************)
(* On-device inference pipeline of the crop detector: the label mapper     *)
(* (utils/diseaseMapping.ts), the image normalizer                         *)
(* (services/imageToTensor.ts), the inference engine                       *)
(* (services/predictImage.ts) and CropDetectionService.                    *)
(*                                                                         *)
(* Strings whose characters the code inspects (labels, crop types) are     *)
(* sequences of one-character strings; strings that are only compared      *)
(* (backend disease names, error kinds) are TLA+ strings.                  *)
(***************************************************************************)
EXTENDS Integers, Sequences, FiniteSets, TLC

\* ------------------------------------------------------------------------
\* String helpers (String.prototype.toLowerCase / includes / split)
\* ------------------------------------------------------------------------

Upper == <<"A","B","C","D","E","F","G","H","I","J","K","L","M","N","O","P","Q","R","S","T","U","V","W","X","Y","Z">>

Lower == <<"a","b","c","d","e","f","g","h","i","j","k","l","m","n","o","p","q","r","s","t","u","v","w","x","y","z">>

LowerChar(c) ==
  IF \E i \in 1..Len(Upper) : Upper[i] = c
    THEN Lower[CHOOSE i \in 1..Len(Upper) : Upper[i] = c]
    ELSE c

toLowerCase(s) == [i \in 1..Len(s) |-> LowerChar(s[i])]

\* sub occurs in s starting at position i
OccursAt(s, sub, i) ==
  /\ i + Len(sub) - 1 <= Len(s)
  /\ \A k \in 1..Len(sub) : s[i + k - 1] = sub[k]

includes(s, sub) == \E i \in 1..(Len(s) + 1) : OccursAt(s, sub, i)

\* s.split(sep)[0]: the part of s before the first occurrence of sep
SplitFirst(s, sep) ==
  IF includes(s, sep)
    THEN SubSeq(s, 1, (CHOOSE i \in 1..(Len(s) + 1) :
                         /\ OccursAt(s, sep, i)
                         /\ \A j \in 1..(i - 1) : ~OccursAt(s, sep, j)) - 1)
    ELSE s

\* ------------------------------------------------------------------------
\* Label vocabulary
\* ------------------------------------------------------------------------

Sep == <<" ", "-", " ">>

Label(crop, condition) == crop \o Sep \o condition

Cashew == <<"C", "a", "s", "h", "e", "w">>

Cassava == <<"C", "a", "s", "s", "a", "v", "a">>

Maize == <<"M", "a", "i", "z", "e">>

Tomato == <<"T", "o", "m", "a", "t", "o">>

Anthracnose == <<"A", "n", "t", "h", "r", "a", "c", "n", "o", "s", "e">>

Gumosis == <<"G", "u", "m", "o", "s", "i", "s">>

Healthy == <<"H", "e", "a", "l", "t", "h", "y">>

LeafMiner == <<"L", "e", "a", "f", " ", "M", "i", "n", "e", "r">>

RedRust == <<"R", "e", "d", " ", "R", "u", "s", "t">>

BacterialBlight == <<"B", "a", "c", "t", "e", "r", "i", "a", "l", " ", "B", "l", "i", "g", "h", "t">>

BrownSpot == <<"B", "r", "o", "w", "n", " ", "S", "p", "o", "t">>

GreenMite == <<"G", "r", "e", "e", "n", " ", "M", "i", "t", "e">>

Mosaic == <<"M", "o", "s", "a", "i", "c">>

FallArmyworm == <<"F", "a", "l", "l", " ", "A", "r", "m", "y", "w", "o", "r", "m">>

Grasshopper == <<"G", "r", "a", "s", "s", "h", "o", "p", "p", "e", "r">>

LeafBeetle == <<"L", "e", "a", "f", " ", "B", "e", "e", "t", "l", "e">>

LeafBlight == <<"L", "e", "a", "f", " ", "B", "l", "i", "g", "h", "t">>

LeafSpot == <<"L", "e", "a", "f", " ", "S", "p", "o", "t">>

StreakVirus == <<"S", "t", "r", "e", "a", "k", " ", "V", "i", "r", "u", "s">>

LeafCurl == <<"L", "e", "a", "f", " ", "C", "u", "r", "l">>

SeptoriaLeafSpot == <<"S", "e", "p", "t", "o", "r", "i", "a", " ", "L", "e", "a", "f", " ", "S", "p", "o", "t">>

VerticilliumWilt == <<"V", "e", "r", "t", "i", "c", "i", "l", "l", "i", "u", "m", " ", "W", "i", "l", "t">>

\* CropType (types/api.ts)
CASHEW == <<"c", "a", "s", "h", "e", "w">>

CASSAVA == <<"c", "a", "s", "s", "a", "v", "a">>

MAIZE == <<"m", "a", "i", "z", "e">>

TOMATO == <<"t", "o", "m", "a", "t", "o">>

CropTypes == {CASHEW, CASSAVA, MAIZE, TOMATO}

DISEASE_MAPPINGS == <<
  [localLabel |-> Label(Cashew, Anthracnose), backendDiseaseName |-> "anthracnose", cropType |-> CASHEW, isHealthy |-> FALSE],
  [localLabel |-> Label(Cashew, Gumosis), backendDiseaseName |-> "gumosis", cropType |-> CASHEW, isHealthy |-> FALSE],
  [localLabel |-> Label(Cashew, Healthy), backendDiseaseName |-> "healthy", cropType |-> CASHEW, isHealthy |-> TRUE],
  [localLabel |-> Label(Cashew, LeafMiner), backendDiseaseName |-> "leaf_miner", cropType |-> CASHEW, isHealthy |-> FALSE],
  [localLabel |-> Label(Cashew, RedRust), backendDiseaseName |-> "red_rust", cropType |-> CASHEW, isHealthy |-> FALSE],
  [localLabel |-> Label(Cassava, BacterialBlight), backendDiseaseName |-> "bacterial_blight", cropType |-> CASSAVA, isHealthy |-> FALSE],
  [localLabel |-> Label(Cassava, BrownSpot), backendDiseaseName |-> "brown_spot", cropType |-> CASSAVA, isHealthy |-> FALSE],
  [localLabel |-> Label(Cassava, GreenMite), backendDiseaseName |-> "green_mite", cropType |-> CASSAVA, isHealthy |-> FALSE],
  [localLabel |-> Label(Cassava, Healthy), backendDiseaseName |-> "healthy", cropType |-> CASSAVA, isHealthy |-> TRUE],
  [localLabel |-> Label(Cassava, Mosaic), backendDiseaseName |-> "mosaic", cropType |-> CASSAVA, isHealthy |-> FALSE],
  [localLabel |-> Label(Maize, FallArmyworm), backendDiseaseName |-> "fall_armyworm", cropType |-> MAIZE, isHealthy |-> FALSE],
  [localLabel |-> Label(Maize, Grasshopper), backendDiseaseName |-> "grasshopper", cropType |-> MAIZE, isHealthy |-> FALSE],
  [localLabel |-> Label(Maize, Healthy), backendDiseaseName |-> "healthy", cropType |-> MAIZE, isHealthy |-> TRUE],
  [localLabel |-> Label(Maize, LeafBeetle), backendDiseaseName |-> "leaf_beetle", cropType |-> MAIZE, isHealthy |-> FALSE],
  [localLabel |-> Label(Maize, LeafBlight), backendDiseaseName |-> "leaf_blight", cropType |-> MAIZE, isHealthy |-> FALSE],
  [localLabel |-> Label(Maize, LeafSpot), backendDiseaseName |-> "leaf_spot", cropType |-> MAIZE, isHealthy |-> FALSE],
  [localLabel |-> Label(Maize, StreakVirus), backendDiseaseName |-> "streak_virus", cropType |-> MAIZE, isHealthy |-> FALSE],
  [localLabel |-> Label(Tomato, Healthy), backendDiseaseName |-> "healthy", cropType |-> TOMATO, isHealthy |-> TRUE],
  [localLabel |-> Label(Tomato, LeafBlight), backendDiseaseName |-> "leaf_blight", cropType |-> TOMATO, isHealthy |-> FALSE],
  [localLabel |-> Label(Tomato, LeafCurl), backendDiseaseName |-> "leaf_curl", cropType |-> TOMATO, isHealthy |-> FALSE],
  [localLabel |-> Label(Tomato, SeptoriaLeafSpot), backendDiseaseName |-> "septoria_leaf_spot", cropType |-> TOMATO, isHealthy |-> FALSE],
  [localLabel |-> Label(Tomato, VerticilliumWilt), backendDiseaseName |-> "verticillium_wilt", cropType |-> TOMATO, isHealthy |-> FALSE]
>>

\* constants/labels.ts: the model's class names, index-aligned with its output
readableLabels == <<
  Label(Cashew, Anthracnose),
  Label(Cashew, Gumosis),
  Label(Cashew, Healthy),
  Label(Cashew, LeafMiner),
  Label(Cashew, RedRust),
  Label(Cassava, BacterialBlight),
  Label(Cassava, BrownSpot),
  Label(Cassava, GreenMite),
  Label(Cassava, Healthy),
  Label(Cassava, Mosaic),
  Label(Maize, FallArmyworm),
  Label(Maize, Grasshopper),
  Label(Maize, Healthy),
  Label(Maize, LeafBeetle),
  Label(Maize, LeafBlight),
  Label(Maize, LeafSpot),
  Label(Maize, StreakVirus),
  Label(Tomato, Healthy),
  Label(Tomato, LeafBlight),
  Label(Tomato, LeafCurl),
  Label(Tomato, SeptoriaLeafSpot),
  Label(Tomato, VerticilliumWilt)
>>
NumMappings == Len(DISEASE_MAPPINGS)

\* The absent value (null / undefined)
Null == [null |-> TRUE]

VARIABLES
  \* label mapper: results of the last calls
  lastLocal,      \* last result of mapLocalToBackend
  lastBackend,    \* last result of mapBackendToLocal
  roundTrip,      \* [label, back]: a label and the record found for its backend name
  validation      \* last result of validateMappings

VARIABLES
  \* label mapper: results of the last calls of the helpers built on it
  coverage,       \* last result of validateModelCoverage
  healthy,        \* [label, value]: last call of isHealthyPrediction
  cropDiseases    \* [cropType, records]: last call of getDiseasesForCrop

labelVars == <<coverage, healthy, cropDiseases>>

mapperVars == <<lastLocal, lastBackend, roundTrip, validation, labelVars>>

VARIABLES
  svc,               \* CropDetectionService: [model, isReady]
  pc,                \* position of the call in flight
  uri,               \* kind of photo reference passed to the call
  model,             \* whether the model handle passed to predictImage is present
  retryCount,        \* imageToTensor: failed ImageManipulator attempts so far
  resized,           \* imageToTensor: result of manipulateAsync, or Null
  primaryAttempts,   \* calls of ImageManipulator.manipulateAsync made
  fallbackAttempts,  \* calls of FileSystem.readAsStringAsync made
  created,           \* tensors the call has created
  disposals,         \* how many times dispose() ran on each tensor
  decodedShape,      \* shape of the tensor decodeJpeg returned, or Null
  tensorShape,       \* shape of the tensor imageToTensor returned, or Null
  rawOut,            \* the tensor returned by model.predict, or Null
  error,             \* the error raised in the call: <<>> or <<message, cause...>>
  result             \* what predictImage returned: Null or a PredictionResult

callVars ==
  <<svc, pc, uri, model, retryCount, resized, primaryAttempts, fallbackAttempts,
    created, disposals, decodedShape, tensorShape, rawOut, error, result>>

VARIABLES
  \* useTfModel: the state of the hook and the position of its load()
  hookModel,         \* state model: Null or the loaded GraphModel
  ready,             \* state ready
  hookError,         \* state error: Null or [str |-> message]
  loadingProgress,   \* state loadingProgress
  loadPc,            \* position of load()
  loadedModel,       \* load(): the local loadedModel, or Null
  caught             \* load(): the value caught, or Null

loaderVars ==
  <<hookModel, ready, hookError, loadingProgress, loadPc, loadedModel, caught>>

VARIABLES
  \* DiseaseDetectionScreen
  mounted,           \* the screen has rendered and its effects have run
  hook,              \* what its useTfModel reports: "loading", "ready", "failed"
  detectionService,  \* state detectionService is set
  detection,         \* state detection (DetectionState)
  pending,           \* analyzeImage calls suspended at an await
  started,           \* detectCrop calls made so far
  handled,           \* the result the last resumed analyzeImage received, or Null
  apiCalls,          \* calls of api.disease.getDiseaseInfo made
  navigations,       \* router.push calls to /treatment-recommendations made
  alert              \* title of the last Alert.alert, or Null

screenVars ==
  <<mounted, hook, detectionService, detection, pending, started, handled,
    apiCalls, navigations, alert>>

VARIABLES
  \* CropDetector
  cdReady,           \* what its useTfModel reports as ready
  cdService,         \* state detectionService is set
  selectedImage,     \* an image is selected
  cdPrediction,      \* state prediction
  isAnalyzing,       \* state isAnalyzing
  cdPending          \* detectCrop calls of the component not yet resolved

detectorVars ==
  <<cdReady, cdService, selectedImage, cdPrediction, isAnalyzing, cdPending>>

uiVars == <<screenVars, detectorVars>>

VARIABLES
  \* OfflineManager
  queue,            \* this.queue.actions
  loads,            \* what the loadQueue calls not yet resolved have read
  isOnline,         \* this.isOnline
  syncInProgress,   \* this.syncInProgress
  passes,           \* the syncQueuedActions calls running
  saving,           \* queueAction calls suspended at saveQueue
  now,              \* Date.now()
  queued,           \* queueAction calls made so far
  generation,       \* loadQueue results applied so far
  attempted         \* the actions executeAction has been called for

offVars ==
  <<queue, loads, isOnline, syncInProgress, passes, saving, now, queued,
    generation, attempted>>

\* ------------------------------------------------------------------------
\* Label mapper (utils/diseaseMapping.ts)
\* ------------------------------------------------------------------------

\* Map.prototype.set: a later set of the same key replaces the earlier value
MapSet(m, k, v) == [x \in (DOMAIN m) \cup {k} |-> IF x = k THEN v ELSE m[x]]

\* Map.prototype.get(k) || null
MapGet(m, k) == IF k \in DOMAIN m THEN m[k] ELSE Null

EmptyMap == [x \in {} |-> Null]

\* LocalMapUpTo with every iteration starting from an empty map
LocalMapLastOnly(i) ==
  IF i = 0 THEN EmptyMap
  ELSE MapSet(EmptyMap, DISEASE_MAPPINGS[i].localLabel, DISEASE_MAPPINGS[i])

RECURSIVE LocalMapUpTo(_)
\* localToBackendMap after the first i iterations of the forEach
LocalMapUpTo(i) ==
  IF i = 0 THEN EmptyMap
  ELSE MapSet(LocalMapUpTo(i - 1), DISEASE_MAPPINGS[i].localLabel, DISEASE_MAPPINGS[i])

RECURSIVE BackendMapUpTo(_)
\* backendToLocalMap after the first i iterations of the forEach
BackendMapUpTo(i) ==
  IF i = 0 THEN EmptyMap
  ELSE MapSet(BackendMapUpTo(i - 1), DISEASE_MAPPINGS[i].backendDiseaseName, DISEASE_MAPPINGS[i])

localToBackendMap == LocalMapUpTo(NumMappings)

backendToLocalMap == BackendMapUpTo(NumMappings)

mapLocalToBackend(localLabel) == MapGet(localToBackendMap, localLabel)

mapBackendToLocal(backendDiseaseName) == MapGet(backendToLocalMap, backendDiseaseName)

\* The crop-type consistency test of validateMappings for one record
CropMismatch(mapping) ==
  LET expectedCrop == toLowerCase(SplitFirst(mapping.localLabel, Sep))
      actualCrop   == toLowerCase(mapping.cropType)
  IN  ~includes(expectedCrop, actualCrop) /\ ~includes(actualCrop, expectedCrop)

\* One iteration of the forEach of validateMappings on record number i
ValidateStep(st, i) ==
  LET mapping == DISEASE_MAPPINGS[i]
      e1 == IF mapping.localLabel \in st.localLabels
              THEN <<[kind |-> "Duplicate local label", index |-> i]>> ELSE <<>>
      e2 == IF mapping.backendDiseaseName \in st.backendNames
              THEN <<[kind |-> "Duplicate backend name", index |-> i]>> ELSE <<>>
      e3 == IF CropMismatch(mapping)
              THEN <<[kind |-> "Crop type mismatch", index |-> i]>> ELSE <<>>
  IN  [localLabels  |-> st.localLabels \cup {mapping.localLabel},
       backendNames |-> st.backendNames \cup {mapping.backendDiseaseName},
       errors       |-> st.errors \o e1 \o e2 \o e3]

RECURSIVE ValidateUpTo(_)
ValidateUpTo(i) ==
  IF i = 0 THEN [localLabels |-> {}, backendNames |-> {}, errors |-> <<>>]
  ELSE ValidateStep(ValidateUpTo(i - 1), i)

validateMappings ==
  LET errors == ValidateUpTo(NumMappings).errors
  IN  [valid |-> Len(errors) = 0, errors |-> errors]

\* Labels and backend names the mapper is queried with: the table's own and
\* some that are in no record
QueryLabels ==
  {DISEASE_MAPPINGS[i].localLabel : i \in 1..NumMappings}
    \cup {Label(Cashew, LeafCurl), Label(Tomato, Mosaic), Healthy, <<>>}

QueryBackendNames ==
  {DISEASE_MAPPINGS[i].backendDiseaseName : i \in 1..NumMappings} \cup {"unknown", ""}

MapperInit ==
  /\ lastLocal = Null
  /\ lastBackend = Null
  /\ roundTrip = Null
  /\ validation = Null
  /\ coverage = Null
  /\ healthy = Null
  /\ cropDiseases = Null

MapLocal(l) ==
  /\ lastLocal' = mapLocalToBackend(l)
  /\ UNCHANGED <<lastBackend, roundTrip, validation>>
  /\ UNCHANGED labelVars
  /\ UNCHANGED <<callVars, loaderVars, uiVars, offVars>>

MapBackend(b) ==
  /\ lastBackend' = mapBackendToLocal(b)
  /\ UNCHANGED <<lastLocal, roundTrip, validation>>
  /\ UNCHANGED labelVars
  /\ UNCHANGED <<callVars, loaderVars, uiVars, offVars>>

\* toLocal(toExternal(l).backendDiseaseName) for a label that has a mapping
RoundTrip(l) ==
  /\ mapLocalToBackend(l) # Null
  /\ roundTrip' = [label |-> l,
                   back  |-> mapBackendToLocal(mapLocalToBackend(l).backendDiseaseName)]
  /\ UNCHANGED <<lastLocal, lastBackend, validation>>
  /\ UNCHANGED labelVars
  /\ UNCHANGED <<callVars, loaderVars, uiVars, offVars>>

RunValidateMappings ==
  /\ validation' = validateMappings
  /\ UNCHANGED <<lastLocal, lastBackend, roundTrip>>
  /\ UNCHANGED labelVars
  /\ UNCHANGED <<callVars, loaderVars, uiVars, offVars>>

\* isHealthyPrediction with true as the value for a label without mapping
isHealthyPredictionDefaultTrue(localLabel) ==
  LET mapping == mapLocalToBackend(localLabel)
  IN  IF mapping = Null THEN TRUE ELSE mapping.isHealthy

\* mapping?.isHealthy || false
isHealthyPrediction(localLabel) ==
  LET mapping == mapLocalToBackend(localLabel)
  IN  IF mapping = Null THEN FALSE ELSE mapping.isHealthy

\* getDiseasesForCrop without the filter
getDiseasesForCropUnfiltered(cropType) == DISEASE_MAPPINGS

\* DISEASE_MAPPINGS.filter(mapping => mapping.cropType === cropType)
getDiseasesForCrop(cropType) ==
  LET keep(mapping) == mapping.cropType = cropType
  IN  SelectSeq(DISEASE_MAPPINGS, keep)

\* validateModelCoverage (scripts/validateMapping.ts): every model label has
\* a record and every record's label is a model label
validateModelCoverage ==
  LET mappedLabels == {DISEASE_MAPPINGS[i].localLabel : i \in 1..NumMappings}
      missing(e)   == readableLabels[e.index] \notin mappedLabels
      orphan(e)    == ~\E i \in 1..Len(readableLabels) :
                          readableLabels[i] = DISEASE_MAPPINGS[e.index].localLabel
      errors ==
        SelectSeq([i \in 1..Len(readableLabels) |->
                     [kind |-> "Missing mapping for model label", index |-> i]], missing)
        \o SelectSeq([i \in 1..NumMappings |->
                        [kind |-> "Mapping exists for non-existent model label", index |-> i]],
                     orphan)
  IN  [valid |-> Len(errors) = 0, errors |-> errors]

IsHealthyPrediction(l) ==
  /\ healthy' = [label |-> l, value |-> isHealthyPrediction(l)]
  /\ UNCHANGED <<coverage, cropDiseases>>
  /\ UNCHANGED <<lastLocal, lastBackend, roundTrip, validation>>
  /\ UNCHANGED <<callVars, loaderVars, uiVars, offVars>>

GetDiseasesForCrop(c) ==
  /\ cropDiseases' = [cropType |-> c, records |-> getDiseasesForCrop(c)]
  /\ UNCHANGED <<coverage, healthy>>
  /\ UNCHANGED <<lastLocal, lastBackend, roundTrip, validation>>
  /\ UNCHANGED <<callVars, loaderVars, uiVars, offVars>>

RunValidateModelCoverage ==
  /\ coverage' = validateModelCoverage
  /\ UNCHANGED <<healthy, cropDiseases>>
  /\ UNCHANGED <<lastLocal, lastBackend, roundTrip, validation>>
  /\ UNCHANGED <<callVars, loaderVars, uiVars, offVars>>

\* ------------------------------------------------------------------------
\* Numeric values of the output tensor (Float32): finite numbers, NaN, +Infinity
\* ------------------------------------------------------------------------

Num(n) == [kind |-> "num", v |-> n]

NaN == [kind |-> "nan", v |-> 0]

PosInf == [kind |-> "inf", v |-> 0]

isFinite(x) == x.kind = "num"

\* IEEE-754 a > b: false whenever an operand is NaN
Gt(a, b) ==
  /\ a.kind # "nan"
  /\ b.kind # "nan"
  /\ IF a.kind = "inf" THEN b.kind # "inf"
     ELSE IF b.kind = "inf" THEN FALSE
     ELSE a.v > b.v

\* ------------------------------------------------------------------------
\* Program constants and bounds
\* ------------------------------------------------------------------------

NumClasses == 22

maxRetries == 3

TargetSize == 224

Channels == 3

TopK == 3

\* largest number of values a raw output has beyond NumClasses
MaxExtra == 2

\* ------------------------------------------------------------------------
\* Tensors: a tensor is [shape, data]; its lifetime is tracked by name
\* ------------------------------------------------------------------------

TensorNames ==
  {"imageTensor", "resizedTensor", "expanded", "preprocessed",
   "prediction", "squeezed", "argMax"}

\* tf.squeeze: drop every dimension of size 1, keep the data
squeeze(t) == [shape |-> SelectSeq(t.shape, LAMBDA d : d # 1), data |-> t.data]

\* The values over which t.argMax(-1).dataSync()[0] is taken: the first
\* slice of t along its last axis
FirstSlice(t) ==
  IF Len(t.shape) = 0 THEN t.data
  ELSE SubSeq(t.data, 1, t.shape[Len(t.shape)])

RECURSIVE ArgMaxUpTo(_, _)
\* 1-based position the arg-max kernel holds after scanning row[1..n]: it
\* starts at the first value and moves only to a strictly greater one, so the
\* first of equal maxima wins and a NaN is never moved to
ArgMaxUpTo(row, n) ==
  IF n <= 1 THEN 1
  ELSE LET best == ArgMaxUpTo(row, n - 1)
       IN  IF Gt(row[n], row[best]) THEN n ELSE best

\* t.argMax(-1).dataSync()[0], 0-based
ArgMaxFirst(t) == ArgMaxUpTo(FirstSlice(t), Len(FirstSlice(t))) - 1

\* arr[i] for a 0-based i; undefined outside the array
At(arr, i) == IF i \in 0..(Len(arr) - 1) THEN arr[i + 1] ELSE Null

\* readableLabels[i]
LabelAt(i) ==
  IF i \in 0..(Len(readableLabels) - 1) THEN [str |-> readableLabels[i + 1]] ELSE Null

\* comparator of the sort of topPredictions, (a, b) => b.confidence - a.confidence,
\* is negative (a before b) exactly when a.confidence > b.confidence
Before(a, b) == Gt(a.confidence, b.confidence)

RECURSIVE InsertSorted(_, _)
\* stable insertion of x into the sorted sequence s: x goes after every
\* element it is not strictly before
InsertSorted(s, x) ==
  IF Len(s) = 0 THEN <<x>>
  ELSE IF Before(x, s[Len(s)])
         THEN Append(InsertSorted(SubSeq(s, 1, Len(s) - 1), x), s[Len(s)])
         ELSE Append(s, x)

RECURSIVE SortUpTo(_, _)
\* Array.prototype.sort (stable) of the first n elements of arr
SortUpTo(arr, n) ==
  IF n = 0 THEN <<>> ELSE InsertSorted(SortUpTo(arr, n - 1), arr[n])

\* scoresArray.map(...).sort(...).slice(0, 3)
TopPredictions(scoresArray) ==
  LET mapped == [i \in 1..Len(scoresArray) |->
                   [label |-> LabelAt(i - 1), confidence |-> scoresArray[i],
                    classIndex |-> i - 1]]
      sorted == SortUpTo(mapped, Len(mapped))
  IN  SubSeq(sorted, 1, IF Len(sorted) < TopK THEN Len(sorted) ELSE TopK)

\* ------------------------------------------------------------------------
\* State of one normalize-and-predict call
\* ------------------------------------------------------------------------

vars == <<mapperVars, callVars, loaderVars, uiVars, offVars>>

\* kinds of photo reference: blank, a file of the app's document directory
\* ('files/crop_image_', 'files/gallery_image_'), any other reference
UriKinds == {"empty", "permanent", "temporary"}

Live == {t \in created : disposals[t] = 0}

Dispose(d, names) == [t \in TensorNames |-> IF t \in names THEN d[t] + 1 ELSE d[t]]

\* Shapes [height, width, channels] decodeJpeg may hand back: the expected
\* one, another size, another channel count
DecodedShapes ==
  {<<TargetSize, TargetSize, Channels>>, <<TargetSize + 1, TargetSize, Channels>>,
   <<TargetSize, TargetSize, 1>>, <<TargetSize, TargetSize - 1, 1>>}

\* Shapes decodeJpeg may hand back on the primary path: the bytes decoded are
\* the JPEG that manipulateAsync produced with resize {width: 224, height: 224}
ResizedJpegShapes ==
  {shape \in DecodedShapes : shape[1] = TargetSize /\ shape[2] = TargetSize}

\* shape of t.expandDims(0) (div keeps the shape)
expandDims(shape) == <<1>> \o shape

\* Shapes a raw output of n values may have for a batch of one image
OutputShapes(n) == {<<n>>, <<1, n>>, <<1, 1, n>>}

\* Raw output data of n values: zero except at positions p and q
Spiked(n, p, x, q, y) ==
  [i \in 1..n |-> IF i = p THEN x ELSE IF i = q THEN y ELSE Num(0)]

OutputLengths == (NumClasses - 1)..(NumClasses + MaxExtra)

\* values the first spike of the raw output takes
SpikeValues == <<Num(1), Num(2), NaN, PosInf>>

\* values the second spike takes
FiniteSpikeValues == <<Num(1), Num(2)>>

\* the tensor model.predict returns: n values of the given shape
RawOutput(n, shape, p, x, q, y) ==
  [shape |-> shape, data |-> Spiked(n, p, x, q, y), size |-> n]

CallInit ==
  /\ svc = [model |-> FALSE, isReady |-> FALSE]
  /\ pc = "idle"
  /\ uri = "empty"
  /\ model = FALSE
  /\ retryCount = 0
  /\ resized = Null
  /\ primaryAttempts = 0
  /\ fallbackAttempts = 0
  /\ created = {}
  /\ disposals = [t \in TensorNames |-> 0]
  /\ decodedShape = Null
  /\ tensorShape = Null
  /\ rawOut = Null
  /\ error = <<>>
  /\ result = Null

\* ------------------------------------------------------------------------
\* CropDetectionService and the entry of predictImage
\* ------------------------------------------------------------------------

\* CropDetectionService.updateModel (and the constructor)
UpdateModel(m) ==
  /\ pc = "idle"
  /\ svc' = [model |-> m, isReady |-> m]
  /\ UNCHANGED <<pc, uri, model, retryCount, resized, primaryAttempts,
                 fallbackAttempts, created, disposals, decodedShape, tensorShape, rawOut,
                 error, result>>
  /\ UNCHANGED <<mapperVars, loaderVars, uiVars, offVars>>

\* PredictImageEntry without the test of the model handle
PredictImageEntryNoCheck(u, m) ==
  /\ uri' = u
  /\ model' = m
  /\ pc' = "imageToTensor"
  /\ UNCHANGED <<error, result>>

\* predictImage up to the call of imageToTensor
PredictImageEntry(u, m) ==
  /\ uri' = u
  /\ model' = m
  /\ IF ~m
       THEN /\ error' = <<"Model not provided">>
            /\ result' = Null
            /\ pc' = "done"
       ELSE /\ pc' = "imageToTensor"
            /\ UNCHANGED <<error, result>>

\* a component calls predictImage(uri, model) with the handle of useTfModel,
\* the one the service was constructed with
PredictImage(u) ==
  /\ pc = "idle"
  /\ PredictImageEntry(u, svc.model)
  /\ UNCHANGED <<svc, retryCount, resized, primaryAttempts, fallbackAttempts,
                 created, disposals, decodedShape, tensorShape, rawOut>>
  /\ UNCHANGED <<mapperVars, loaderVars, uiVars, offVars>>

\* CropDetectionService.detectCrop up to the call of imageToTensor
DetectCrop(u) ==
  /\ pc = "idle"
  /\ IF ~svc.isReady \/ ~svc.model
       THEN /\ uri' = u
            /\ model' = svc.model
            /\ error' = <<"Model not ready for prediction">>
            /\ result' = Null
            /\ pc' = "done"
       ELSE PredictImageEntry(u, svc.model)
  /\ UNCHANGED <<svc, retryCount, resized, primaryAttempts, fallbackAttempts,
                 created, disposals, decodedShape, tensorShape, rawOut>>
  /\ UNCHANGED <<mapperVars, loaderVars, uiVars, offVars>>

\* An error leaves imageToTensor or the body of predictImage: the catch of
\* predictImage logs it and returns null
CatchReturnNull(err) ==
  /\ error' = err
  /\ result' = Null
  /\ pc' = "done"

\* ------------------------------------------------------------------------
\* Image normalizer (services/imageToTensor.ts)
\* ------------------------------------------------------------------------

\* imageToTensor up to the retry loop
ImageToTensorStart ==
  /\ pc = "imageToTensor"
  /\ IF uri = "empty"
       THEN /\ CatchReturnNull(<<"Empty or invalid image URI">>)
            /\ UNCHANGED retryCount
       ELSE /\ pc' = (IF uri = "permanent" THEN "alternative" ELSE "manipulate")
            /\ retryCount' = 0
            /\ UNCHANGED <<error, result>>
  /\ UNCHANGED <<svc, uri, model, resized, primaryAttempts, fallbackAttempts,
                 created, disposals, decodedShape, tensorShape, rawOut>>
  /\ UNCHANGED <<mapperVars, loaderVars, uiVars, offVars>>

\* one pass of the retry loop in which manipulateAsync resolves
ManipulateSucceeds(hasBase64) ==
  /\ pc = "manipulate"
  /\ retryCount < maxRetries
  /\ primaryAttempts' = primaryAttempts + 1
  /\ resized' = [base64 |-> hasBase64]
  /\ pc' = "decode"
  /\ UNCHANGED <<svc, uri, model, retryCount, fallbackAttempts, created,
                 disposals, decodedShape, tensorShape, rawOut, error, result>>
  /\ UNCHANGED <<mapperVars, loaderVars, uiVars, offVars>>

\* ManipulateFails with the retry loop running one pass too many
ManipulateFailsOffByOne ==
  /\ pc = "manipulate"
  /\ retryCount <= maxRetries
  /\ primaryAttempts' = primaryAttempts + 1
  /\ retryCount' = retryCount + 1
  /\ pc' = (IF retryCount + 1 > maxRetries THEN "alternative" ELSE "manipulate")
  /\ UNCHANGED <<svc, uri, model, resized, fallbackAttempts, created,
                 disposals, decodedShape, tensorShape, rawOut, error, result>>
  /\ UNCHANGED <<mapperVars, loaderVars, uiVars, offVars>>

\* ManipulateFails going to the fallback after the first failure
ManipulateFailsFallbackAtOnce ==
  /\ pc = "manipulate"
  /\ retryCount < maxRetries
  /\ primaryAttempts' = primaryAttempts + 1
  /\ retryCount' = retryCount + 1
  /\ pc' = "alternative"
  /\ UNCHANGED <<svc, uri, model, resized, fallbackAttempts, created,
                 disposals, decodedShape, tensorShape, rawOut, error, result>>
  /\ UNCHANGED <<mapperVars, loaderVars, uiVars, offVars>>

\* one pass of the retry loop in which manipulateAsync rejects
ManipulateFails ==
  /\ pc = "manipulate"
  /\ retryCount < maxRetries
  /\ primaryAttempts' = primaryAttempts + 1
  /\ retryCount' = retryCount + 1
  /\ pc' = (IF retryCount + 1 >= maxRetries THEN "alternative" ELSE "manipulate")
  /\ UNCHANGED <<svc, uri, model, resized, fallbackAttempts, created,
                 disposals, decodedShape, tensorShape, rawOut, error, result>>
  /\ UNCHANGED <<mapperVars, loaderVars, uiVars, offVars>>

\* PrimaryDecode without the test of the decoded shape
PrimaryDecodeNoShapeTest ==
  /\ pc = "decode"
  /\ \/ /\ ~resized.base64
        /\ CatchReturnNull(<<"Failed to get base64 from resized image">>)
        /\ UNCHANGED <<created, disposals, decodedShape, tensorShape>>
     \/ /\ resized.base64
        /\ \/ /\ CatchReturnNull(<<"decodeJpeg failed">>)
              /\ UNCHANGED <<created, disposals, decodedShape, tensorShape>>
           \/ \E shape \in ResizedJpegShapes :
                /\ created' = created \cup {"imageTensor", "expanded", "preprocessed"}
                /\ disposals' = Dispose(disposals, {"imageTensor"})
                /\ tensorShape' = expandDims(shape)
                /\ decodedShape' = shape
                /\ pc' = "predict"
                /\ UNCHANGED <<error, result>>
  /\ UNCHANGED <<svc, uri, model, retryCount, resized, primaryAttempts,
                 fallbackAttempts, rawOut>>
  /\ UNCHANGED <<mapperVars, loaderVars, uiVars, offVars>>

\* imageToTensor after the retry loop: base64 check, decodeJpeg, shape
\* validation, expandDims, div, dispose
PrimaryDecode ==
  /\ pc = "decode"
  /\ \/ /\ ~resized.base64
        /\ CatchReturnNull(<<"Failed to get base64 from resized image">>)
        /\ UNCHANGED <<created, disposals, decodedShape, tensorShape>>
     \/ /\ resized.base64
        /\ \/ /\ CatchReturnNull(<<"decodeJpeg failed">>)
              /\ UNCHANGED <<created, disposals, decodedShape, tensorShape>>
           \/ \E shape \in ResizedJpegShapes :
                IF Len(shape) # 3 \/ shape[3] # Channels
                  THEN /\ created' = created \cup {"imageTensor"}
                       /\ disposals' = Dispose(disposals, {"imageTensor"})
                       /\ CatchReturnNull(<<"Invalid decoded tensor shape">>)
                       /\ UNCHANGED tensorShape
                       /\ decodedShape' = shape
                  ELSE /\ created' = created \cup {"imageTensor", "expanded", "preprocessed"}
                       /\ disposals' = Dispose(disposals, {"imageTensor"})
                       /\ tensorShape' = expandDims(shape)
                       /\ decodedShape' = shape
                       /\ pc' = "predict"
                       /\ UNCHANGED <<error, result>>
  /\ UNCHANGED <<svc, uri, model, retryCount, resized, primaryAttempts,
                 fallbackAttempts, rawOut>>
  /\ UNCHANGED <<mapperVars, loaderVars, uiVars, offVars>>

\* the catch of processImageAlternative wraps whatever was thrown
AlternativeFails(cause) ==
  CatchReturnNull(<<"All image processing methods failed">> \o cause)

\* AlternativeDecoded without the call of resizeBilinear
AlternativeDecodedNoResize(shape) ==
  IF Len(shape) # 3 \/ shape[3] # Channels
    THEN /\ created' = created \cup {"imageTensor"}
         /\ disposals' = Dispose(disposals, {"imageTensor"})
         /\ AlternativeFails(<<"Invalid tensor shape">>)
         /\ UNCHANGED tensorShape
         /\ decodedShape' = shape
    ELSE /\ created' = created \cup {"imageTensor", "expanded", "preprocessed"}
         /\ disposals' = Dispose(disposals, {"imageTensor"})
         /\ tensorShape' = expandDims(shape)
         /\ decodedShape' = shape
         /\ pc' = "predict"
         /\ UNCHANGED <<error, result>>

\* what processImageAlternative does with a decoded tensor of the given shape
AlternativeDecoded(shape) ==
  LET needsResize  == shape[1] # TargetSize \/ shape[2] # TargetSize
      resizedShape == IF needsResize
                        THEN <<TargetSize, TargetSize>> \o SubSeq(shape, 3, Len(shape))
                        ELSE shape
      \* resizedTensor is imageTensor itself when no resize is needed
      resizedName  == IF needsResize THEN "resizedTensor" ELSE "imageTensor"
      afterResize  == IF needsResize THEN Dispose(disposals, {"imageTensor"}) ELSE disposals
  IN  IF Len(resizedShape) # 3 \/ resizedShape[3] # Channels
        THEN /\ created' = created \cup {"imageTensor", resizedName}
             /\ disposals' = Dispose(afterResize, {resizedName})
             /\ AlternativeFails(<<"Invalid tensor shape">>)
             /\ UNCHANGED tensorShape
             /\ decodedShape' = shape
        ELSE /\ created' = created \cup {"imageTensor", resizedName, "expanded", "preprocessed"}
             /\ disposals' = Dispose(afterResize, {resizedName})
             /\ tensorShape' = expandDims(resizedShape)
             /\ decodedShape' = shape
             /\ pc' = "predict"
             /\ UNCHANGED <<error, result>>

\* processImageAlternative
ProcessImageAlternative ==
  /\ pc = "alternative"
  /\ fallbackAttempts' = fallbackAttempts + 1
  /\ \/ /\ AlternativeFails(<<"Failed to read image file">>)
        /\ UNCHANGED <<created, disposals, decodedShape, tensorShape>>
     \/ /\ AlternativeFails(<<"decodeJpeg failed">>)
        /\ UNCHANGED <<created, disposals, decodedShape, tensorShape>>
     \/ \E shape \in DecodedShapes : AlternativeDecoded(shape)
  /\ UNCHANGED <<svc, uri, model, retryCount, resized, primaryAttempts, rawOut>>
  /\ UNCHANGED <<mapperVars, loaderVars, uiVars, offVars>>

\* ------------------------------------------------------------------------
\* Inference engine (services/predictImage.ts)
\* ------------------------------------------------------------------------

\* Reconcile with the truncation keeping the last NumClasses values instead of
\* the first
ReconcileKeepLast(prediction) ==
  IF Len(prediction.data) = NumClasses
    THEN [squeezed |-> FALSE, processed |-> prediction, ok |-> TRUE,
          scores |-> prediction.data]
    ELSE LET sq        == Len(prediction.shape) > 1
             processed == IF sq THEN squeeze(prediction) ELSE prediction
             scores    == processed.data
         IN  [squeezed  |-> sq,
              processed |-> processed,
              ok        |-> Len(scores) >= NumClasses,
              scores    |-> IF Len(scores) > NumClasses
                              THEN SubSeq(scores, Len(scores) - NumClasses + 1, Len(scores))
                              ELSE scores]

\* Score reconciliation of predictImage on the raw output tensor:
\* [squeezed: whether prediction.squeeze() ran, processed: processedPrediction,
\*  ok: FALSE when the insufficient-classes error is thrown, scores]
Reconcile(prediction) ==
  IF Len(prediction.data) = NumClasses
    THEN [squeezed |-> FALSE, processed |-> prediction, ok |-> TRUE,
          scores |-> prediction.data]
    ELSE LET sq        == Len(prediction.shape) > 1
             processed == IF sq THEN squeeze(prediction) ELSE prediction
             scores    == processed.data
         IN  [squeezed  |-> sq,
              processed |-> processed,
              ok        |-> Len(scores) >= NumClasses,
              scores    |-> IF Len(scores) > NumClasses
                              THEN SubSeq(scores, 1, NumClasses) ELSE scores]

\* The PredictionResult built from the reconciled scores once
\* processedPrediction.argMax(-1).dataSync()[0] has given classIndex
BuildResult(scores, classIndex) ==
  [label          |-> LabelAt(classIndex),
   confidence     |-> At(scores, classIndex),
   classIndex     |-> classIndex,
   allScores      |-> scores,
   topPredictions |-> TopPredictions(scores)]

\* The tensor model.predict returned when its data() rejects: the values are
\* never read
Unread(n, shape) == [shape |-> shape, data |-> <<>>, size |-> n]

\* predictImage after imageToTensor has resolved: model.predict, score
\* reconciliation, arg-max, top predictions, disposal, and the catch
RunPrediction ==
  /\ pc = "predict"
  /\ \/ \* model.predict throws
        /\ CatchReturnNull(<<"model.predict failed">>)
        /\ UNCHANGED <<created, disposals, rawOut>>
     \/ \* the first prediction.data() rejects
        \E n \in OutputLengths : \E shape \in OutputShapes(n) :
          /\ rawOut' = Unread(n, shape)
          /\ created' = created \cup {"prediction"}
          /\ UNCHANGED disposals
          /\ CatchReturnNull(<<"data() failed">>)
     \/ \* processedPrediction.data() rejects after the squeeze
        \E n \in OutputLengths : \E shape \in OutputShapes(n) :
          /\ n # NumClasses
          /\ Len(shape) > 1
          /\ rawOut' = Unread(n, shape)
          /\ created' = created \cup {"prediction", "squeezed"}
          /\ UNCHANGED disposals
          /\ CatchReturnNull(<<"data() failed">>)
     \/ \E n \in OutputLengths : \E shape \in OutputShapes(n) :
        \E p \in 1..n, q \in 1..n :
        \E ix \in 1..Len(SpikeValues), iy \in 1..Len(FiniteSpikeValues) :
          LET prediction == RawOutput(n, shape, p, SpikeValues[ix], q, FiniteSpikeValues[iy])
              r == Reconcile(prediction)
          IN  /\ p < q
              /\ rawOut' = prediction
              /\ IF ~r.ok
                   THEN /\ created' = created \cup {"prediction"}
                                        \cup (IF r.squeezed THEN {"squeezed"} ELSE {})
                        /\ UNCHANGED disposals
                        /\ CatchReturnNull(<<"Insufficient output classes">>)
                   ELSE LET classIndex == ArgMaxFirst(r.processed) IN
                        /\ created' = created \cup {"prediction", "argMax"}
                                        \cup (IF r.squeezed THEN {"squeezed"} ELSE {})
                        /\ disposals' = Dispose(disposals,
                                          {"preprocessed", "prediction"}
                                            \cup (IF r.squeezed THEN {"squeezed"} ELSE {}))
                        /\ error' = <<>>
                        /\ result' = BuildResult(r.scores, classIndex)
                        /\ pc' = "done"
  /\ UNCHANGED <<svc, uri, model, retryCount, resized, primaryAttempts,
                 fallbackAttempts, decodedShape, tensorShape>>
  /\ UNCHANGED <<mapperVars, loaderVars, uiVars, offVars>>

\* ------------------------------------------------------------------------
\* Model loader (hooks/useTfModel.ts, ModelValidator of utils/modelUtils.ts)
\* ------------------------------------------------------------------------

\* a dimension a shape does not report (null)
NullDim == -1

InputShapes ==
  {Null,
   [dims |-> <<NullDim, TargetSize, TargetSize, Channels>>],
   [dims |-> <<TargetSize, TargetSize, Channels>>],
   [dims |-> <<NullDim, TargetSize + 1, TargetSize, Channels>>]}

OutputShapesDeclared ==
  {Null,
   [dims |-> <<>>],
   [dims |-> <<NullDim, NumClasses>>],
   [dims |-> <<NullDim, NumClasses + 1>>],
   [dims |-> <<NullDim, NullDim>>]}

\* What tf.loadGraphModel may resolve to: the number of declared inputs and
\* outputs and the shapes of the first of each (Null: shape undefined)
LoadedModels ==
  {m \in [inputs : {0, 1}, outputs : {0, 1},
          inputShape : InputShapes, outputShape : OutputShapesDeclared] :
     /\ m.inputs = 0 => m.inputShape = Null
     /\ m.outputs = 0 => m.outputShape = Null}

\* validateModel rejecting a class dimension other than 22
validateModelStrictClasses(m) ==
  IF m.inputs = 0 THEN FALSE
  ELSE IF m.outputs = 0 THEN FALSE
  ELSE IF m.outputShape = Null THEN TRUE
  ELSE IF Len(m.outputShape.dims) < 1 THEN FALSE
  ELSE LET classesDim == m.outputShape.dims[Len(m.outputShape.dims)]
       IN  classesDim = NullDim \/ classesDim = NumClasses

\* ModelValidator.validateModel
validateModel(m) ==
  IF m.inputs = 0 THEN FALSE
  ELSE IF m.outputs = 0 THEN FALSE
  ELSE IF m.outputShape = Null THEN TRUE
  ELSE IF Len(m.outputShape.dims) < 1 THEN FALSE
  ELSE TRUE

\* Values a failing step of load() throws: an Error with its message, or
\* something that is not an Error
Thrown(message) == [isError |-> TRUE, message |-> message]

NotAnError == [isError |-> FALSE, message |-> ""]

\* err instanceof Error ? err.message : 'Unknown error loading model'
errorMessage(err) ==
  IF err.isError THEN err.message ELSE "Unknown error loading model"

LoaderInit ==
  /\ hookModel = Null
  /\ ready = FALSE
  /\ hookError = Null
  /\ loadingProgress = "Initializing..."
  /\ loadPc = "effect"
  /\ loadedModel = Null
  /\ caught = Null

\* a step of the try block throws: control goes to the catch
Throw(err) ==
  /\ caught' = err
  /\ loadPc' = "catch"

\* LoadStart with the effect running again after a failed load
LoadStartAgainAfterFailure ==
  /\ loadPc \in {"effect", "failed"}
  /\ loadingProgress' = "Initializing TensorFlow.js..."
  /\ loadPc' = "tfReady"
  /\ UNCHANGED <<hookModel, ready, hookError, loadedModel, caught>>
  /\ UNCHANGED <<mapperVars, callVars, uiVars, offVars>>

\* the effect runs once after the first render and calls load()
LoadStart ==
  /\ loadPc = "effect"
  /\ loadingProgress' = "Initializing TensorFlow.js..."
  /\ loadPc' = "tfReady"
  /\ UNCHANGED <<hookModel, ready, hookError, loadedModel, caught>>
  /\ UNCHANGED <<mapperVars, callVars, uiVars, offVars>>

\* await tf.ready()
TfReady ==
  /\ loadPc = "tfReady"
  /\ \/ /\ loadingProgress' = "Loading model files..."
        /\ loadPc' = "require"
        /\ UNCHANGED caught
     \/ /\ \E err \in {Thrown("tf.ready failed"), NotAnError} : Throw(err)
        /\ UNCHANGED loadingProgress
  /\ UNCHANGED <<hookModel, ready, hookError, loadedModel>>
  /\ UNCHANGED <<mapperVars, callVars, uiVars, offVars>>

\* require of model.json and of the weight shards (deserialization)
RequireModelFiles ==
  /\ loadPc = "require"
  /\ \/ /\ loadingProgress' = "Assembling model..."
        /\ loadPc' = "assemble"
        /\ UNCHANGED caught
     \/ /\ Throw(Thrown("Cannot find module"))
        /\ UNCHANGED loadingProgress
  /\ UNCHANGED <<hookModel, ready, hookError, loadedModel>>
  /\ UNCHANGED <<mapperVars, callVars, uiVars, offVars>>

\* await tf.loadGraphModel(bundleResourceIO(...)) (assembly)
LoadGraphModel ==
  /\ loadPc = "assemble"
  /\ \/ \E m \in LoadedModels :
          /\ loadedModel' = m
          /\ loadingProgress' = "Validating model..."
          /\ loadPc' = "validate"
          /\ UNCHANGED caught
     \/ /\ \E err \in {Thrown("loadGraphModel failed"), NotAnError} : Throw(err)
        /\ UNCHANGED <<loadingProgress, loadedModel>>
  /\ UNCHANGED <<hookModel, ready, hookError>>
  /\ UNCHANGED <<mapperVars, callVars, uiVars, offVars>>

\* if (!ModelValidator.validateModel(loadedModel)) throw ...
ValidateLoaded ==
  /\ loadPc = "validate"
  /\ IF validateModel(loadedModel)
       THEN /\ loadingProgress' = "Testing model..."
            /\ loadPc' = "test"
            /\ UNCHANGED caught
       ELSE /\ Throw(Thrown("Model validation failed"))
            /\ UNCHANGED loadingProgress
  /\ UNCHANGED <<hookModel, ready, hookError, loadedModel>>
  /\ UNCHANGED <<mapperVars, callVars, uiVars, offVars>>

\* await ModelValidator.testModelPrediction(loadedModel): it never throws and
\* its result only decides a warning
TestLoaded ==
  /\ loadPc = "test"
  /\ \E testPassed \in BOOLEAN : loadPc' = "setModel"
  /\ UNCHANGED <<hookModel, ready, hookError, loadingProgress, loadedModel, caught>>
  /\ UNCHANGED <<mapperVars, callVars, uiVars, offVars>>

\* SetModel leaving the state model as it is
SetModelSkipped ==
  /\ loadPc = "setModel"
  /\ loadPc' = "setReady"
  /\ UNCHANGED <<hookModel, ready, hookError, loadingProgress, loadedModel, caught>>
  /\ UNCHANGED <<mapperVars, callVars, uiVars, offVars>>

SetModel ==
  /\ loadPc = "setModel"
  /\ hookModel' = loadedModel
  /\ loadPc' = "setReady"
  /\ UNCHANGED <<ready, hookError, loadingProgress, loadedModel, caught>>
  /\ UNCHANGED <<mapperVars, callVars, uiVars, offVars>>

SetReady ==
  /\ loadPc = "setReady"
  /\ ready' = TRUE
  /\ loadPc' = "setError"
  /\ UNCHANGED <<hookModel, hookError, loadingProgress, loadedModel, caught>>
  /\ UNCHANGED <<mapperVars, callVars, uiVars, offVars>>

SetError ==
  /\ loadPc = "setError"
  /\ hookError' = Null
  /\ loadPc' = "setProgress"
  /\ UNCHANGED <<hookModel, ready, loadingProgress, loadedModel, caught>>
  /\ UNCHANGED <<mapperVars, callVars, uiVars, offVars>>

SetProgressReady ==
  /\ loadPc = "setProgress"
  /\ loadingProgress' = "Ready"
  /\ loadPc' = "loaded"
  /\ UNCHANGED <<hookModel, ready, hookError, loadedModel, caught>>
  /\ UNCHANGED <<mapperVars, callVars, uiVars, offVars>>

CatchSetError ==
  /\ loadPc = "catch"
  /\ hookError' = [str |-> errorMessage(caught)]
  /\ loadPc' = "catchSetReady"
  /\ UNCHANGED <<hookModel, ready, loadingProgress, loadedModel, caught>>
  /\ UNCHANGED <<mapperVars, callVars, uiVars, offVars>>

CatchSetReady ==
  /\ loadPc = "catchSetReady"
  /\ ready' = FALSE
  /\ loadPc' = "catchSetProgress"
  /\ UNCHANGED <<hookModel, hookError, loadingProgress, loadedModel, caught>>
  /\ UNCHANGED <<mapperVars, callVars, uiVars, offVars>>

\* CatchSetProgress putting the progress message back to its first value
CatchSetProgressInitial ==
  /\ loadPc = "catchSetProgress"
  /\ loadingProgress' = "Initializing..."
  /\ loadPc' = "failed"
  /\ UNCHANGED <<hookModel, ready, hookError, loadedModel, caught>>
  /\ UNCHANGED <<mapperVars, callVars, uiVars, offVars>>

CatchSetProgress ==
  /\ loadPc = "catchSetProgress"
  /\ loadingProgress' = "Failed"
  /\ loadPc' = "failed"
  /\ UNCHANGED <<hookModel, ready, hookError, loadedModel, caught>>
  /\ UNCHANGED <<mapperVars, callVars, uiVars, offVars>>

\* ------------------------------------------------------------------------
\* DiseaseDetectionScreen
\* ------------------------------------------------------------------------

\* bound on the detectCrop calls one screen makes
MaxAnalyses == 2

\* class indexes detectCrop reports: a diseased label, a healthy one, a
\* second diseased one and an index beyond the label list
ScreenClasses == {0, 2, 5, NumClasses}

\* what detectCrop resolves to: null or a PredictionResult
DetectCropResults ==
  {Null} \cup {[classIndex |-> i, label |-> LabelAt(i)] : i \in ScreenClasses}

\* mapLocalToBackend(result.label); a label that is undefined has no entry
mappingOfResult(r) ==
  IF r.label = Null THEN Null ELSE mapLocalToBackend(r.label.str)

Message(text) == [str |-> text]

RemoveAt(seq, i) == SubSeq(seq, 1, i - 1) \o SubSeq(seq, i + 1, Len(seq))

ScreenInit ==
  /\ mounted = FALSE
  /\ hook = "loading"
  /\ detectionService = FALSE
  /\ detection = [isAnalyzing |-> FALSE, result |-> Null, diseaseInfo |-> Null,
                  error |-> Null, selectedCropType |-> Null]
  /\ pending = <<>>
  /\ started = 0
  /\ handled = Null
  /\ apiCalls = {}
  /\ navigations = {}
  /\ alert = Null

\* useTfModel of the screen finishes loading
HookReady ==
  /\ mounted /\ hook = "loading"
  /\ hook' = "ready"
  /\ UNCHANGED <<mounted, detectionService, detection, pending, started,
                 handled, apiCalls, navigations, alert>>
  /\ UNCHANGED <<mapperVars, callVars, loaderVars, detectorVars, offVars>>

\* useTfModel of the screen reports an error
HookFails ==
  /\ mounted /\ hook = "loading"
  /\ hook' = "failed"
  /\ UNCHANGED <<mounted, detectionService, detection, pending, started,
                 handled, apiCalls, navigations, alert>>
  /\ UNCHANGED <<mapperVars, callVars, loaderVars, detectorVars, offVars>>

\* the effect on [modelReady, model]
ServiceEffect ==
  /\ hook = "ready" /\ ~detectionService
  /\ detectionService' = TRUE
  /\ UNCHANGED <<mounted, hook, detection, pending, started, handled,
                 apiCalls, navigations, alert>>
  /\ UNCHANGED <<mapperVars, callVars, loaderVars, detectorVars, offVars>>

\* analyzeImage up to its first await
analyzeImage ==
  IF hook # "ready" \/ ~detectionService
  THEN /\ detection' =
            [detection EXCEPT !.error =
               IF hook = "failed" THEN Message("model error")
               ELSE Message("AI model not ready. Please wait...")]
       /\ UNCHANGED <<pending, started>>
  ELSE /\ started < MaxAnalyses
       /\ detection' = [detection EXCEPT !.isAnalyzing = TRUE, !.error = Null]
       /\ pending' = Append(pending, [stage |-> "detect", result |-> Null,
                                      mapping |-> Null])
       /\ started' = started + 1

\* first render: the effect on [imageUri] starts the automatic analysis
Mount ==
  /\ ~mounted
  /\ mounted' = TRUE
  /\ analyzeImage
  /\ UNCHANGED <<hook, detectionService, handled, apiCalls, navigations, alert>>
  /\ UNCHANGED <<mapperVars, callVars, loaderVars, detectorVars, offVars>>

RetryPressAlwaysShown ==
  /\ mounted
  /\ analyzeImage
  /\ UNCHANGED <<mounted, hook, detectionService, handled, apiCalls,
                 navigations, alert>>
  /\ UNCHANGED <<mapperVars, callVars, loaderVars, detectorVars, offVars>>

\* the Retry Analysis button, rendered while detection.error is set
RetryPress ==
  /\ mounted /\ detection.error # Null
  /\ analyzeImage
  /\ UNCHANGED <<mounted, hook, detectionService, handled, apiCalls,
                 navigations, alert>>
  /\ UNCHANGED <<mapperVars, callVars, loaderVars, detectorVars, offVars>>

\* the catch and finally blocks of analyzeImage
Failed(i, message) ==
  /\ detection' = [detection EXCEPT !.error = Message(message),
                                    !.isAnalyzing = FALSE]
  /\ pending' = RemoveAt(pending, i)

DetectCropResolvesParsingLabel(i, r) ==
  /\ i \in 1..Len(pending) /\ pending[i].stage = "detect"
  /\ handled' = r
  /\ IF r = Null THEN Failed(i, "Local model prediction failed")
     ELSE LET found == mappingOfResult(r)
              diseaseMapping ==
                IF found # Null THEN found
                ELSE [backendDiseaseName |-> "unknown", cropType |-> CASSAVA,
                      isHealthy |-> FALSE]
          IN  IF diseaseMapping.isHealthy
              THEN /\ detection' =
                        [detection EXCEPT
                           !.result = r,
                           !.selectedCropType = diseaseMapping.cropType,
                           !.diseaseInfo = [name |-> "Healthy Plant",
                                            source |-> "local"]]
                   /\ pending' = [pending EXCEPT ![i] =
                        [stage |-> "save", result |-> r,
                         mapping |-> diseaseMapping]]
              ELSE /\ detection' =
                        [detection EXCEPT
                           !.result = r,
                           !.selectedCropType = diseaseMapping.cropType]
                   /\ pending' = [pending EXCEPT ![i] =
                        [stage |-> "cache", result |-> r,
                         mapping |-> diseaseMapping]]
  /\ UNCHANGED <<mounted, hook, detectionService, started, apiCalls,
                 navigations, alert>>
  /\ UNCHANGED <<mapperVars, callVars, loaderVars, detectorVars, offVars>>

\* analyzeImage resumes with the result of detectCrop and runs to its next
\* await, or through catch and finally
DetectCropResolves(i, r) ==
  /\ i \in 1..Len(pending) /\ pending[i].stage = "detect"
  /\ handled' = r
  /\ IF r = Null THEN Failed(i, "Local model prediction failed")
     ELSE LET diseaseMapping == mappingOfResult(r)
          IN  IF diseaseMapping = Null
              THEN Failed(i, "Unknown disease prediction")
              ELSE IF diseaseMapping.isHealthy
              THEN /\ detection' =
                        [detection EXCEPT
                           !.result = r,
                           !.selectedCropType = diseaseMapping.cropType,
                           !.diseaseInfo = [name |-> "Healthy Plant",
                                            source |-> "local"]]
                   /\ pending' = [pending EXCEPT ![i] =
                        [stage |-> "save", result |-> r,
                         mapping |-> diseaseMapping]]
              ELSE /\ detection' =
                        [detection EXCEPT
                           !.result = r,
                           !.selectedCropType = diseaseMapping.cropType]
                   /\ pending' = [pending EXCEPT ![i] =
                        [stage |-> "cache", result |-> r,
                         mapping |-> diseaseMapping]]
  /\ UNCHANGED <<mounted, hook, detectionService, started, apiCalls,
                 navigations, alert>>
  /\ UNCHANGED <<mapperVars, callVars, loaderVars, detectorVars, offVars>>

\* fetchDiseaseInfo resumes after storage.disease.getCachedDiseaseInfo:
\* a hit, a miss (the backend is asked) or a storage error (fallback info)
CacheLookupResolves(i, outcome) ==
  /\ i \in 1..Len(pending) /\ pending[i].stage = "cache"
  /\ LET name == pending[i].mapping.backendDiseaseName
     IN  CASE outcome = "hit" ->
                /\ detection' = [detection EXCEPT !.diseaseInfo =
                                   [name |-> name, source |-> "cache"]]
                /\ pending' = [pending EXCEPT ![i].stage = "save"]
                /\ UNCHANGED apiCalls
           [] outcome = "miss" ->
                /\ apiCalls' = apiCalls \cup
                     {[label |-> pending[i].result.label, disease |-> name]}
                /\ pending' = [pending EXCEPT ![i].stage = "api"]
                /\ UNCHANGED detection
           [] outcome = "throws" ->
                /\ detection' = [detection EXCEPT !.diseaseInfo =
                                   [name |-> name, source |-> "fallback"]]
                /\ pending' = [pending EXCEPT ![i].stage = "save"]
                /\ UNCHANGED apiCalls
  /\ UNCHANGED <<mounted, hook, detectionService, started, handled,
                 navigations, alert>>
  /\ UNCHANGED <<mapperVars, callVars, loaderVars, detectorVars, offVars>>

\* fetchDiseaseInfo resumes after api.disease.getDiseaseInfo
ApiResolves(i, ok) ==
  /\ i \in 1..Len(pending) /\ pending[i].stage = "api"
  /\ detection' = [detection EXCEPT !.diseaseInfo =
                     [name |-> pending[i].mapping.backendDiseaseName,
                      source |-> IF ok THEN "api" ELSE "fallback"]]
  /\ pending' = [pending EXCEPT ![i].stage = "save"]
  /\ UNCHANGED <<mounted, hook, detectionService, started, handled, apiCalls,
                 navigations, alert>>
  /\ UNCHANGED <<mapperVars, callVars, loaderVars, detectorVars, offVars>>

\* analyzeImage resumes after saveDetectionToHistory and runs its finally
SaveResolves(i) ==
  /\ i \in 1..Len(pending) /\ pending[i].stage = "save"
  /\ detection' = [detection EXCEPT !.isAnalyzing = FALSE]
  /\ pending' = RemoveAt(pending, i)
  /\ UNCHANGED <<mounted, hook, detectionService, started, handled, apiCalls,
                 navigations, alert>>
  /\ UNCHANGED <<mapperVars, callVars, loaderVars, detectorVars, offVars>>

proceedToRecommendationsAlsoHealthy ==
  IF detection.result = Null \/ detection.selectedCropType = Null
  THEN UNCHANGED <<navigations, alert>>
  ELSE LET diseaseMapping == mappingOfResult(detection.result)
       IN  IF diseaseMapping = Null
           THEN alert' = Message("Error") /\ UNCHANGED navigations
           ELSE /\ navigations' = navigations \cup
                     {[label |-> detection.result.label,
                       disease |-> diseaseMapping.backendDiseaseName,
                       cropType |-> diseaseMapping.cropType]}
                /\ UNCHANGED alert

proceedToRecommendations ==
  IF detection.result = Null \/ detection.selectedCropType = Null
  THEN UNCHANGED <<navigations, alert>>
  ELSE LET diseaseMapping == mappingOfResult(detection.result)
       IN  IF diseaseMapping = Null
           THEN alert' = Message("Error") /\ UNCHANGED navigations
           ELSE IF diseaseMapping.isHealthy
           THEN alert' = Message("Healthy Plant Detected") /\ UNCHANGED navigations
           ELSE /\ navigations' = navigations \cup
                     {[label |-> detection.result.label,
                       disease |-> diseaseMapping.backendDiseaseName,
                       cropType |-> diseaseMapping.cropType]}
                /\ UNCHANGED alert

\* the Get Treatment button, rendered with the result and enabled while a
\* crop type is selected
GetTreatmentPress ==
  /\ mounted
  /\ detection.result # Null /\ ~detection.isAnalyzing
  /\ detection.selectedCropType # Null
  /\ proceedToRecommendations
  /\ UNCHANGED <<mounted, hook, detectionService, detection, pending, started,
                 handled, apiCalls>>
  /\ UNCHANGED <<mapperVars, callVars, loaderVars, detectorVars, offVars>>

\* ------------------------------------------------------------------------
\* CropDetector
\* ------------------------------------------------------------------------

DetectorInit ==
  /\ cdReady = FALSE
  /\ cdService = FALSE
  /\ selectedImage = FALSE
  /\ cdPrediction = Null
  /\ isAnalyzing = FALSE
  /\ cdPending = 0

\* useTfModel of the component finishes loading
DetectorHookReady ==
  /\ ~cdReady
  /\ cdReady' = TRUE
  /\ UNCHANGED <<cdService, selectedImage, cdPrediction, isAnalyzing, cdPending>>
  /\ UNCHANGED <<mapperVars, callVars, loaderVars, screenVars, offVars>>

\* the effect on [ready, model]
DetectorServiceEffect ==
  /\ cdReady /\ ~cdService
  /\ cdService' = TRUE
  /\ UNCHANGED <<cdReady, selectedImage, cdPrediction, isAnalyzing, cdPending>>
  /\ UNCHANGED <<mapperVars, callVars, loaderVars, screenVars, offVars>>

\* pickImage or takePhoto resumes with an image
ImagePicked ==
  /\ selectedImage' = TRUE
  /\ cdPrediction' = Null
  /\ UNCHANGED <<cdReady, cdService, isAnalyzing, cdPending>>
  /\ UNCHANGED <<mapperVars, callVars, loaderVars, screenVars, offVars>>

\* the Analyze Crop button, rendered with the image and disabled while the
\* model is loading or an analysis runs: analyzeImage up to its await
AnalyzePress ==
  /\ selectedImage /\ cdReady /\ ~isAnalyzing
  /\ IF ~selectedImage \/ ~cdService
     THEN UNCHANGED <<isAnalyzing, cdPending>>
     ELSE isAnalyzing' = TRUE /\ cdPending' = cdPending + 1
  /\ UNCHANGED <<cdReady, cdService, selectedImage, cdPrediction>>
  /\ UNCHANGED <<mapperVars, callVars, loaderVars, screenVars, offVars>>

\* analyzeImage of the component resumes with the result of detectCrop
DetectorResolves(r) ==
  /\ cdPending > 0
  /\ cdPrediction' = r
  /\ isAnalyzing' = FALSE
  /\ cdPending' = cdPending - 1
  /\ UNCHANGED <<cdReady, cdService, selectedImage>>
  /\ UNCHANGED <<mapperVars, callVars, loaderVars, screenVars, offVars>>

\* ------------------------------------------------------------------------
\* OfflineManager
\* ------------------------------------------------------------------------

\* maxRetries of the actions the application queues
ActionMaxRetries == 3

\* bound on the queueAction calls
MaxQueued == 2

\* what AsyncStorage holds when the application starts: the queue an earlier
\* session saved, with one action that has failed twice
StartupStore ==
  [actions |-> <<[uid |-> 0, id |-> 0, retryCount |-> ActionMaxRetries - 1,
                  maxRetries |-> ActionMaxRetries]>>]

\* JSON.parse: new objects with the fields stored
Parse(text, gen) ==
  [i \in 1..Len(text) |->
     [uid |-> text[i].uid, id |-> text[i].id,
      retryCount |-> text[i].retryCount, maxRetries |-> text[i].maxRetries,
      gen |-> gen]]

Uids(actions) == {actions[i].uid : i \in 1..Len(actions)}

\* the application has started: the constructor and initialize(false) have
\* each called loadQueue, and both calls are suspended at getItem
OfflineInit ==
  /\ queue = <<>>
  /\ loads = <<StartupStore, StartupStore>>
  /\ isOnline = TRUE
  /\ syncInProgress = FALSE
  /\ passes = <<>>
  /\ saving = 0
  /\ now = 1
  /\ queued = 0
  /\ generation = 0
  /\ attempted = {}

\* the filter that ends the loop of a pass
FilterQueue(actions, successfulActions) ==
  SelectSeq(actions, LAMBDA action : action.id \notin successfulActions)

\* a pass whose loop is over filters the queue and calls saveQueue, the others
\* wait for executeAction. A pass holds actionsToSync, the position of its
\* loop, successfulActions and where it is suspended, and keeps account of the
\* actions queued when it started, added while its loop ran, done (executed or
\* out of retries) and in the queue before and after its filter
Advance(pass, actions) ==
  IF pass.idx <= Len(pass.actionsToSync)
  THEN [passes |-> pass, queue |-> actions]
  ELSE LET kept == FilterQueue(actions, pass.successfulActions)
       IN  [passes |-> [pass EXCEPT !.stage = "save",
                                    !.before = Uids(actions),
                                    !.after = Uids(kept)],
            queue |-> kept]

\* syncQueuedActions up to its first await
syncQueuedActions(online) ==
  IF syncInProgress \/ ~online
  THEN UNCHANGED <<syncInProgress, passes, queue>>
  ELSE LET first ==
           Advance([actionsToSync |-> queue, idx |-> 1,
                    successfulActions |-> {}, stage |-> "exec",
                    started |-> Uids(queue), added |-> {},
                    removable |-> {}, before |-> {}, after |-> {}], queue)
       IN  /\ syncInProgress' = TRUE
           /\ passes' = Append(passes, first.passes)
           /\ queue' = first.queue

\* setOnlineStatus(online)
SetOnlineStatus(online) ==
  /\ isOnline' = online
  /\ IF ~isOnline /\ online /\ ~syncInProgress
     THEN syncQueuedActions(online)
     ELSE UNCHANGED <<syncInProgress, passes, queue>>
  /\ UNCHANGED <<loads, saving, now, queued, generation, attempted>>
  /\ UNCHANGED <<mapperVars, callVars, loaderVars, uiVars>>

\* queueAction up to its await of saveQueue; the clock may have advanced
\* since the last call or not
QueueAction(tick) ==
  /\ queued < MaxQueued
  /\ now' = now + tick
  /\ queued' = queued + 1
  /\ queue' = Append(queue, [uid |-> queued', id |-> now', retryCount |-> 0,
                             maxRetries |-> ActionMaxRetries,
                             gen |-> generation])
  /\ passes' = [p \in 1..Len(passes) |->
                  IF passes[p].stage = "exec"
                  THEN [passes[p] EXCEPT !.added = @ \cup {queued'}]
                  ELSE passes[p]]
  /\ saving' = saving + 1
  /\ UNCHANGED <<loads, isOnline, syncInProgress, generation, attempted>>
  /\ UNCHANGED <<mapperVars, callVars, loaderVars, uiVars>>

\* queueAction resumes after saveQueue
QueueActionResumes ==
  /\ saving > 0
  /\ saving' = saving - 1
  /\ IF isOnline THEN syncQueuedActions(isOnline)
     ELSE UNCHANGED <<syncInProgress, passes, queue>>
  /\ UNCHANGED <<loads, isOnline, now, queued, generation, attempted>>
  /\ UNCHANGED <<mapperVars, callVars, loaderVars, uiVars>>

\* a call of syncQueuedActions from outside
SyncQueuedActions ==
  /\ syncQueuedActions(isOnline)
  /\ UNCHANGED <<loads, isOnline, saving, now, queued, generation, attempted>>
  /\ UNCHANGED <<mapperVars, callVars, loaderVars, uiVars>>

\* the queue after action.retryCount++ on an object of the snapshot
Retried(actions, action) ==
  [i \in 1..Len(actions) |->
     IF actions[i].uid = action.uid /\ actions[i].gen = action.gen
     THEN [actions[i] EXCEPT !.retryCount = action.retryCount + 1]
     ELSE actions[i]]

\* the pass resumes after executeAction, which resolved or threw, and runs
\* to the next executeAction or through the filter to saveQueue
ExecuteResolves(ok) ==
  \E p \in 1..Len(passes) :
  /\ passes[p].stage = "exec"
  /\ LET pass == passes[p]
         action == pass.actionsToSync[pass.idx]
         gone == ok \/ action.retryCount + 1 >= action.maxRetries
         next == Advance([pass EXCEPT
                            !.idx = @ + 1,
                            !.successfulActions =
                               IF gone THEN @ \cup {action.id} ELSE @,
                            !.removable =
                               IF gone THEN @ \cup {action.uid} ELSE @],
                         IF ok THEN queue ELSE Retried(queue, action))
     IN  /\ attempted' = attempted \cup {action.uid}
         /\ passes' = [passes EXCEPT ![p] = next.passes]
         /\ queue' = next.queue
  /\ UNCHANGED <<loads, isOnline, syncInProgress, saving, now, queued,
                 generation>>
  /\ UNCHANGED <<mapperVars, callVars, loaderVars, uiVars>>

PassSaveResolvesKeepsFlag ==
  \E p \in 1..Len(passes) :
  /\ passes[p].stage = "save"
  /\ passes' = RemoveAt(passes, p)
  /\ syncInProgress' = (passes[p].removable = {} /\ passes[p].actionsToSync # <<>>)
  /\ UNCHANGED <<queue, loads, isOnline, saving, now, queued, generation,
                 attempted>>
  /\ UNCHANGED <<mapperVars, callVars, loaderVars, uiVars>>

\* the pass resumes after saveQueue, which logs its own errors, and runs its
\* finally
PassSaveResolves ==
  \E p \in 1..Len(passes) :
  /\ passes[p].stage = "save"
  /\ passes' = RemoveAt(passes, p)
  /\ syncInProgress' = FALSE
  /\ UNCHANGED <<queue, loads, isOnline, saving, now, queued, generation,
                 attempted>>
  /\ UNCHANGED <<mapperVars, callVars, loaderVars, uiVars>>

\* loadQueue resumes with what it read
LoadQueueResolves ==
  /\ loads # <<>>
  /\ loads' = Tail(loads)
  /\ IF Head(loads) # Null
     THEN /\ generation' = generation + 1
          /\ queue' = Parse(Head(loads).actions, generation')
     ELSE UNCHANGED <<queue, generation>>
  /\ UNCHANGED <<isOnline, syncInProgress, passes, saving, now, queued,
                 attempted>>
  /\ UNCHANGED <<mapperVars, callVars, loaderVars, uiVars>>

\* ------------------------------------------------------------------------
\* Specifications
\* ------------------------------------------------------------------------

Init ==
  MapperInit /\ CallInit /\ LoaderInit /\ ScreenInit /\ DetectorInit /\ OfflineInit

Next ==
  \/ \E m \in BOOLEAN : UpdateModel(m)
  \/ \E u \in UriKinds : PredictImage(u)
  \/ \E u \in UriKinds : DetectCrop(u)
  \/ ImageToTensorStart
  \/ \E b \in BOOLEAN : ManipulateSucceeds(b)
  \/ ManipulateFails
  \/ PrimaryDecode
  \/ ProcessImageAlternative
  \/ RunPrediction

\* one normalize-and-predict call
Spec == Init /\ [][Next]_vars

NextMapper ==
  \/ \E l \in QueryLabels : MapLocal(l)
  \/ \E b \in QueryBackendNames : MapBackend(b)
  \/ \E l \in QueryLabels : RoundTrip(l)
  \/ RunValidateMappings

\* queries of the label mapper
SpecMapper == Init /\ [][NextMapper]_vars

NextLabels ==
  \/ \E l \in QueryLabels : IsHealthyPrediction(l)
  \/ \E c \in CropTypes : GetDiseasesForCrop(c)
  \/ RunValidateModelCoverage

SpecLabels == Init /\ [][NextLabels]_vars

NextLoader ==
  \/ LoadStart
  \/ TfReady
  \/ RequireModelFiles
  \/ LoadGraphModel
  \/ ValidateLoaded
  \/ TestLoaded
  \/ SetModel
  \/ SetReady
  \/ SetError
  \/ SetProgressReady
  \/ CatchSetError
  \/ CatchSetReady
  \/ CatchSetProgress

SpecLoader == Init /\ [][NextLoader]_vars

NextScreen ==
  \/ Mount
  \/ HookReady
  \/ HookFails
  \/ ServiceEffect
  \/ RetryPress
  \/ \E i \in 1..MaxAnalyses, r \in DetectCropResults : DetectCropResolves(i, r)
  \/ \E i \in 1..MaxAnalyses, o \in {"hit", "miss", "throws"} : CacheLookupResolves(i, o)
  \/ \E i \in 1..MaxAnalyses, ok \in BOOLEAN : ApiResolves(i, ok)
  \/ \E i \in 1..MaxAnalyses : SaveResolves(i)
  \/ GetTreatmentPress
  \/ DetectorHookReady
  \/ DetectorServiceEffect
  \/ ImagePicked
  \/ AnalyzePress
  \/ \E r \in DetectCropResults : DetectorResolves(r)

\* the detection screen and the detector component
SpecScreen == Init /\ [][NextScreen]_vars

NextOffline ==
  \/ \E online \in BOOLEAN : SetOnlineStatus(online)
  \/ \E tick \in {0, 1} : QueueAction(tick)
  \/ QueueActionResumes
  \/ SyncQueuedActions
  \/ \E ok \in BOOLEAN : ExecuteResolves(ok)
  \/ PassSaveResolves
  \/ LoadQueueResolves

\* the offline queue and its synchronisation
SpecOffline == Init /\ [][NextOffline]_vars

\* ------------------------------------------------------------------------
\* Properties
\* ------------------------------------------------------------------------

\* the call has returned a PredictionResult
Returned == pc = "done" /\ result # Null

\* s[i] is a maximum of the sequence s
IsMaxAt(s, i) == \A j \in 1..Len(s) : ~Gt(s[j], s[i])

\* C1: for every non-null result of predictImage, classIndex is the position
\* of the maximum among the NumClasses reconciled scores (allScores), hence
\* 0 <= classIndex < NumClasses, also when the raw output had more values and
\* was truncated.
C1_ClassIndexIsArgMaxOfScores ==
  Returned =>
    /\ Len(result.allScores) = NumClasses
    /\ result.classIndex \in 0..(NumClasses - 1)
    /\ IsMaxAt(result.allScores, result.classIndex + 1)

\* C2: a raw output of exactly NumClasses values is used unchanged; one of
\* more values yields its first NumClasses values in order; one of fewer
\* values makes the prediction fail with the insufficient-output-classes
\* error and no PredictionResult.
C2_Reconciliation ==
  (pc = "done" /\ rawOut # Null /\ error # <<"data() failed">>) =>
    /\ rawOut.size = NumClasses =>
         result # Null /\ result.allScores = rawOut.data
    /\ rawOut.size > NumClasses =>
         /\ result # Null
         /\ Len(result.allScores) = NumClasses
         /\ \A i \in 1..NumClasses : result.allScores[i] = rawOut.data[i]
    /\ rawOut.size < NumClasses =>
         result = Null /\ error = <<"Insufficient output classes">>

\* C2 witness: a raw output of more than NumClasses values, whose spike lies
\* beyond them, has been reconciled into a result
C2_Witness ==
  /\ Returned
  /\ rawOut.size > NumClasses
  /\ rawOut.data[rawOut.size] # Num(0)

\* C3: on every exit path of predictImage once the input tensor exists, the
\* input tensor, the raw output tensor and the squeezed tensor have each been
\* disposed exactly once when the call resolves.
C3_TensorsDisposedOnce ==
  (pc = "done" /\ "preprocessed" \in created) =>
    \A t \in {"preprocessed", "prediction", "squeezed"} \cap created : disposals[t] = 1

\* C4: imageToTensor leaves no tensor it created live except the one it
\* returns, on success and on failure, on the primary and the fallback path.
C4_NormalizerLeavesOnlyResult ==
  /\ pc = "predict" => Live \subseteq {"preprocessed"}
  /\ (pc = "done" /\ "preprocessed" \notin created) => Live = {}

\* C5: if any reconciled score is NaN or infinite, predictImage returns no
\* PredictionResult.
C5_NonFiniteScoresFail ==
  Returned => \A i \in 1..Len(result.allScores) : isFinite(result.allScores[i])

\* C6: for every record m of DISEASE_MAPPINGS, mapping m.localLabel to its
\* backend disease name and that name back gives a record with m.localLabel.
C6_RoundTrip ==
  roundTrip # Null =>
    /\ roundTrip.back # Null
    /\ roundTrip.back.localLabel = roundTrip.label

\* C7: validateMappings on the shipped table returns valid = true and no
\* errors.
C7_ShippedTableValid ==
  validation # Null => (validation.valid /\ Len(validation.errors) = 0)

\* C8: predictImage and CropDetectionService.detectCrop return null, without
\* reading the image or creating a tensor, whenever the model handle is absent.
C8_NullWhenModelAbsent ==
  (pc # "idle" /\ ~model) =>
    /\ pc = "done"
    /\ result = Null
    /\ created = {}
    /\ primaryAttempts = 0
    /\ fallbackAttempts = 0

\* C8 witness: detectCrop has returned on a service without model
C8_Witness ==
  /\ pc = "done"
  /\ ~model
  /\ error = <<"Model not ready for prediction">>
  /\ uri = "temporary"

\* C9: for every non-null result, confidence is allScores[classIndex] and
\* label is the label-table entry at classIndex, and both are defined.
C9_ConfidenceAndLabelDefined ==
  Returned =>
    /\ result.confidence # Null
    /\ result.label # Null
    /\ result.confidence = At(result.allScores, result.classIndex)
    /\ result.label = LabelAt(result.classIndex)

\* C10: when several of the (finite) reconciled scores share the maximum,
\* classIndex is the lowest index holding it.
C10_TieBreakLowestIndex ==
  (/\ Returned
   /\ \A i \in 1..Len(result.allScores) : isFinite(result.allScores[i])
   /\ Cardinality({i \in 1..Len(result.allScores) : IsMaxAt(result.allScores, i)}) > 1) =>
    /\ result.classIndex + 1 \in 1..Len(result.allScores)
    /\ IsMaxAt(result.allScores, result.classIndex + 1)
    /\ \A j \in 1..result.classIndex : ~IsMaxAt(result.allScores, j)

\* C11: for every non-null result, topPredictions holds the triples
\* (label, score, classIndex) of all N reconciled scores sorted by
\* non-increasing score and cut to the first 3: its length is min(3, N), no
\* later entry has a greater score than an earlier one, no score left out is
\* greater than one kept, and the classIndex values are distinct and in [0, N).
C11_TopPredictionsSorted ==
  Returned =>
    LET top == result.topPredictions
        N   == Len(result.allScores)
        kept == {top[i].classIndex : i \in 1..Len(top)}
    IN  /\ Len(top) = (IF N < TopK THEN N ELSE TopK)
        /\ \A i \in 1..Len(top) :
             /\ top[i].classIndex \in 0..(N - 1)
             /\ top[i].confidence = At(result.allScores, top[i].classIndex)
             /\ top[i].label = LabelAt(top[i].classIndex)
        /\ \A i, j \in 1..Len(top) : i # j => top[i].classIndex # top[j].classIndex
        /\ \A i, j \in 1..Len(top) : i < j => ~Gt(top[j].confidence, top[i].confidence)
        /\ \A k \in (0..(N - 1)) \ kept : \A i \in 1..Len(top) :
             ~Gt(result.allScores[k + 1], top[i].confidence)

\* C12: every tensor imageToTensor returns, on the primary or on the fallback
\* path, has shape [1, 224, 224, 3].
C12_ReturnedTensorShape ==
  tensorShape # Null => tensorShape = <<1, TargetSize, TargetSize, Channels>>

\* C12 witness: the fallback path has returned a tensor for an image that
\* had to be resized
C12_Witness ==
  /\ tensorShape # Null
  /\ fallbackAttempts = 1
  /\ "resizedTensor" \in created

UpperChar(c) ==
  IF \E i \in 1..Len(Lower) : Lower[i] = c
    THEN Upper[CHOOSE i \in 1..Len(Lower) : Lower[i] = c]
    ELSE c

\* the label '<Crop> - Healthy' of a crop type
HealthyLabelOf(cropType) == <<UpperChar(Head(cropType))>> \o Tail(cropType) \o Sep \o Healthy

HealthyCount(records) == Cardinality({i \in 1..Len(records) : records[i].isHealthy})

\* C14: a record has isHealthy = true exactly when its localLabel is the
\* '<Crop> - Healthy' label of its crop, and no crop type has more than one
\* healthy record.
C14_HealthyFlagConsistent ==
  /\ \A k \in 1..NumMappings : DISEASE_MAPPINGS[k].cropType \in CropTypes
  /\ \A c \in CropTypes :
       LET records == getDiseasesForCrop(c)
       IN  /\ \A i \in 1..Len(records) :
                records[i].isHealthy <=> records[i].localLabel = HealthyLabelOf(c)
           /\ HealthyCount(records) <= 1
  /\ cropDiseases # Null =>
       /\ HealthyCount(cropDiseases.records) <= 1
       /\ \A i \in 1..Len(cropDiseases.records) :
            cropDiseases.records[i].isHealthy
              <=> cropDiseases.records[i].localLabel = HealthyLabelOf(cropDiseases.cropType)

\* C14 witness: the records of a crop have been listed and one is healthy
C14_Witness ==
  /\ cropDiseases # Null
  /\ HealthyCount(cropDiseases.records) = 1
  /\ Len(cropDiseases.records) > 1

\* C15: isHealthyPrediction(label) is false for every label that has no
\* mapping, and true only for a label whose mapping has isHealthy = true.
C15_HealthyPrediction ==
  healthy # Null =>
    LET mapping == mapLocalToBackend(healthy.label)
    IN  /\ mapping = Null => ~healthy.value
        /\ healthy.value => (mapping # Null /\ mapping.isHealthy)

\* C15 witness: isHealthyPrediction was asked about a label without mapping
C15_Witness ==
  /\ healthy # Null
  /\ mapLocalToBackend(healthy.label) = Null
  /\ ~healthy.value

\* C16: in every state of the loader ready = true implies that the model
\* handle is non-null and error is null; a load that succeeded ends with
\* ready = true, error = null and the handle available.
C16_ReadyImpliesModel ==
  /\ ready => (hookModel # Null /\ hookError = Null)
  /\ loadPc = "loaded" =>
       /\ ready
       /\ hookError = Null
       /\ hookModel # Null
       /\ hookModel = loadedModel

\* C16 witness: a load has succeeded
C16_Witness == loadPc = "loaded" /\ ready

\* the load has failed in deserialization, assembly or structural validation
\* and the catch block has run to its end
LoadFailed == loadPc = "failed"

\* C17: when deserialization, assembly or structural validation fails the
\* loader ends with ready = false, a non-empty error message, no model handle
\* and progress 'Failed', and stays in that state: no step of the loader
\* changes it and no load is started again.
C17_FailedLoadIsFinal ==
  /\ [](caught # Null => (~ready /\ hookModel = Null))
  /\ [](LoadFailed =>
          /\ caught # Null
          /\ ~ready
          /\ hookError # Null
          /\ hookError.str # ""
          /\ hookModel = Null
          /\ loadingProgress = "Failed")
  /\ [][LoadFailed => UNCHANGED loaderVars]_vars

\* C17 witness: the structural validation of a loaded model has failed
C17_Witness ==
  /\ LoadFailed
  /\ loadedModel # Null
  /\ hookError = [str |-> "Model validation failed"]

\* the call has ended because imageToTensor threw: the model handle was
\* there and no tensor was returned
NormalizationFailed == pc = "done" /\ model /\ tensorShape = Null

\* C18: when normalization fails, what the caller of predictImage receives
\* identifies a normalization failure and differs from the null that signals
\* model-not-ready.
C18_NormalizationFailureSurfaced ==
  NormalizationFailed => result # Null

\* the call is in processImageAlternative or has been through it
InFallback == pc = "alternative" \/ fallbackAttempts > 0

\* the primary path has made all its attempts and each has failed
PrimaryExhausted == primaryAttempts = maxRetries /\ retryCount = maxRetries

\* C19 as stated: imageToTensor enters processImageAlternative only after the
\* primary resize/encode path has failed on all 3 of its attempts.
C19_FallbackOnlyAfterThreeFailures == InFallback => PrimaryExhausted

\* C19 amended: imageToTensor enters processImageAlternative at once, without
\* any primary attempt, for a reference to a permanent file of the app, and
\* for every other reference only after the primary path has failed on all
\* 3 of its attempts.
C19_FallbackAfterThreeFailuresOrPermanent ==
  InFallback =>
    IF uri = "permanent" THEN primaryAttempts = 0 ELSE PrimaryExhausted

\* C19 witness: the fallback is entered after three failed primary attempts
C19_Witness ==
  /\ pc = "alternative"
  /\ uri = "temporary"
  /\ PrimaryExhausted

\* imageToTensor has failed in the fallback read
FallbackReadFailed ==
  /\ pc = "done"
  /\ error = <<"All image processing methods failed", "Failed to read image file">>

\* C20 as stated: when the fallback read fails after every primary attempt
\* failed, exactly 3 primary attempts and exactly 1 fallback attempt were
\* made.
C20_ThreePrimaryThenOneFallback ==
  FallbackReadFailed =>
    /\ primaryAttempts = maxRetries
    /\ retryCount = maxRetries
    /\ fallbackAttempts = 1

\* the call is inside imageToTensor
InNormalizer == pc \in {"imageToTensor", "manipulate", "decode", "alternative"}

\* an upper bound of the steps imageToTensor still has to make
StepsLeft ==
  CASE pc = "imageToTensor" -> maxRetries + 3
    [] pc = "manipulate"    -> (maxRetries - retryCount) + 1
    [] pc = "decode"        -> 1
    [] pc = "alternative"   -> 1
    [] OTHER                -> 0

\* C20 amended: for a reference that is not a permanent file of the app, on
\* which every primary attempt fails and the fallback read fails too,
\* imageToTensor makes exactly 3 primary attempts, then exactly 1 fallback
\* attempt, then fails with an error; for a permanent file whose fallback
\* read fails it makes no primary attempt and exactly 1 fallback attempt;
\* there is never a 4th primary attempt, a 2nd fallback attempt or a primary
\* attempt after the fallback attempt, and the call always ends: inside
\* imageToTensor a step is always possible and every step brings the bound
\* StepsLeft down.
C20_BoundedAttemptsAndTermination ==
  /\ [](primaryAttempts <= maxRetries /\ fallbackAttempts <= 1)
  /\ [](FallbackReadFailed =>
          /\ result = Null
          /\ fallbackAttempts = 1
          /\ IF uri = "permanent"
               THEN primaryAttempts = 0
               ELSE primaryAttempts = maxRetries /\ retryCount = maxRetries)
  /\ [](InNormalizer => (StepsLeft > 0 /\ ENABLED Next))
  /\ [][/\ primaryAttempts' # primaryAttempts => fallbackAttempts' = 0
        /\ InNormalizer => StepsLeft' < StepsLeft]_vars

\* C20 witness: three primary attempts and the fallback read have all failed
C20_Witness ==
  /\ FallbackReadFailed
  /\ uri = "temporary"
  /\ primaryAttempts = maxRetries
  /\ fallbackAttempts = 1

\* the tensor decodeJpeg returned is not of rank 3 with 3 channels
DecodedInvalid ==
  /\ decodedShape # Null
  /\ (Len(decodedShape) # 3 \/ decodedShape[3] # Channels)

\* the error imageToTensor threw is the invalid-shape error, on the fallback
\* path inside the wrapper of processImageAlternative
InvalidShapeError ==
  \/ error = <<"Invalid decoded tensor shape">>
  \/ error = <<"All image processing methods failed", "Invalid tensor shape">>

\* C21: imageToTensor never returns a tensor when the decoded pixel tensor is
\* not of rank 3 with last dimension 3: on both paths the call fails with the
\* invalid-shape error, and no batch-expanded or normalized tensor is made.
C21_InvalidShapeRejected ==
  DecodedInvalid =>
    /\ tensorShape = Null
    /\ pc = "done"
    /\ result = Null
    /\ InvalidShapeError
    /\ "expanded" \notin created
    /\ "preprocessed" \notin created

\* C21 witness: both paths have something to reject; here the fallback path
\* rejected a one-channel image after resizing it
C21_Witness ==
  /\ DecodedInvalid
  /\ fallbackAttempts = 1
  /\ "resizedTensor" \in created
  /\ pc = "done"

\* validateModel has run on the loaded model
ValidationRan == loadedModel # Null /\ loadPc # "validate"

\* validateModel returned false: load() threw 'Model validation failed'
Rejected == caught = Thrown("Model validation failed")

ZeroInputsOrOutputs == loadedModel.inputs = 0 \/ loadedModel.outputs = 0

\* the first output declares a shape, and the shape has no dimension
RankZeroOutput ==
  /\ loadedModel.outputs > 0
  /\ loadedModel.outputShape # Null
  /\ Len(loadedModel.outputShape.dims) = 0

\* C22 as stated: validateModel rejects a model only when it declares zero
\* inputs or zero outputs.
C22_RejectsOnlyZeroInputsOrOutputs ==
  (ValidationRan /\ Rejected) => ZeroInputsOrOutputs

\* C22 amended: validateModel rejects a model exactly when it declares zero
\* inputs or zero outputs or its first output declares a shape of rank 0;
\* an undefined input or output shape, an undefined class dimension, an
\* input that is not 4-D or not 224x224x3 and a class count other than 22
\* never cause rejection.
C22_RejectsZeroIOOrRankZeroOutput ==
  ValidationRan => (Rejected <=> (ZeroInputsOrOutputs \/ RankZeroOutput))

\* C22 witness: a model with a 3-D input shape and 23 classes was accepted
C22_Witness ==
  /\ ValidationRan
  /\ ~Rejected
  /\ loadedModel.inputShape = [dims |-> <<TargetSize, TargetSize, Channels>>]
  /\ loadedModel.outputShape = [dims |-> <<NullDim, NumClasses + 1>>]

\* position of a progress message in the order of the stages; 0 for a
\* message that is none of them
StageOf(progress) ==
  CASE progress = "Initializing..."               -> 1
    [] progress = "Initializing TensorFlow.js..." -> 1
    [] progress = "Loading model files..."        -> 2
    [] progress = "Assembling model..."           -> 3
    [] progress = "Validating model..."           -> 4
    [] progress = "Testing model..."              -> 5
    [] progress = "Ready"                         -> 6
    [] progress = "Failed"                        -> 7
    [] OTHER                                      -> 0

\* C23: the progress message only moves forward through the stages
\* Initializing, Loading model files, Assembling model, Validating model,
\* Testing model, Ready, one stage at a time; it may jump to Failed from any
\* stage before Ready; once it is Ready or Failed it never changes again.
C23_ProgressMovesForward ==
  /\ [](StageOf(loadingProgress) # 0)
  /\ [][LET from == StageOf(loadingProgress)
            to   == StageOf(loadingProgress')
        IN  /\ from >= 6 => loadingProgress' = loadingProgress
            /\ from < 6 => (to = from \/ to = from + 1 \/ to = 7)]_vars

\* C23 witness: the message jumped to Failed from the stage Validating model
C23_Witness ==
  /\ loadingProgress = "Failed"
  /\ Rejected

\* the analysis that last resumed received a prediction whose label has no
\* mapping
UnmappedHandled == handled # Null /\ mappingOfResult(handled) = Null

\* the label is one mapLocalToBackend has an entry for
MappedLabel(label) == label # Null /\ mapLocalToBackend(label.str) # Null

\* C24: a prediction whose label mapLocalToBackend has no mapping for causes
\* no disease-info request and no navigation to the treatment
\* recommendations: every request and every navigation made is for a mapped
\* label, no suspended analysis is past the mapping test with an unmapped
\* label, and such a prediction never becomes detection.result, the one
\* proceedToRecommendations navigates for.
C24_UnmappedNeitherFetchedNorNavigated ==
  /\ \A c \in apiCalls : MappedLabel(c.label)
  /\ \A n \in navigations : MappedLabel(n.label)
  /\ \A i \in 1..Len(pending) :
        pending[i].stage # "detect" => MappedLabel(pending[i].result.label)
  /\ detection.result # Null => MappedLabel(detection.result.label)

C24_Witness ==
  /\ UnmappedHandled
  /\ detection.error = Message("Unknown disease prediction")
  /\ ~detection.isAnalyzing
  /\ pending = <<>>

\* the label is mapped with isHealthy = true
HealthyLabel(label) ==
  /\ MappedLabel(label)
  /\ mapLocalToBackend(label.str).isHealthy

\* C25: a prediction whose mapping has isHealthy = true causes no call of the
\* backend disease-info API and no navigation to the treatment
\* recommendations: no request made or about to be made, and no navigation,
\* is for a healthy label.
C25_HealthyNeitherFetchedNorNavigated ==
  /\ \A c \in apiCalls : ~HealthyLabel(c.label)
  /\ \A n \in navigations : ~HealthyLabel(n.label)
  /\ \A i \in 1..Len(pending) :
        pending[i].stage \in {"cache", "api"} =>
          ~HealthyLabel(pending[i].result.label)

C25_Witness ==
  /\ detection.result # Null
  /\ HealthyLabel(detection.result.label)
  /\ detection.diseaseInfo = [name |-> "Healthy Plant", source |-> "local"]
  /\ alert = Message("Healthy Plant Detected")

\* detectCrop calls of the detection screen that have not resolved
InferencesInFlight ==
  Cardinality({i \in 1..Len(pending) : pending[i].stage = "detect"})

\* C26: on each screen at most one detectCrop call is unresolved at any time,
\* whatever the order of the automatic analysis, the presses of the retry
\* button and of the analyze button, and the resolutions.
C26_OneInferenceInFlight ==
  /\ InferencesInFlight <= 1
  /\ Len(pending) <= 1
  /\ cdPending <= 1

C26_Witness ==
  /\ InferencesInFlight = 1
  /\ started > 1
  /\ cdPending = 1

\* C27: in every non-null result of predictImage the first of the top
\* predictions has the classIndex, label and confidence the result itself
\* carries.
C27_TopPredictionIsResult ==
  Returned =>
    /\ Len(result.topPredictions) >= 1
    /\ result.topPredictions[1].classIndex = result.classIndex
    /\ result.topPredictions[1].label = result.label
    /\ result.topPredictions[1].confidence = result.confidence

\* no queueAction, syncQueuedActions or loadQueue call is suspended
OfflineIdle == passes = <<>> /\ saving = 0 /\ loads = <<>>

\* C28: a pass that has filtered the queue removed only actions that
\* executed successfully in it or reached their maxRetries failed attempts,
\* and every other action that was queued when it started or was added by
\* queueAction while it ran is in the queue after the filter.
C28_PassRemovesOnlyDoneActions ==
  \A p \in 1..Len(passes) :
    passes[p].stage = "save" =>
      /\ (passes[p].before \ passes[p].after) \subseteq passes[p].removable
      /\ ((passes[p].started \cup passes[p].added) \ passes[p].removable)
            \subseteq passes[p].after

\* C29: at most one sync pass runs at a time, and syncInProgress is false
\* whenever none runs, also after a pass in which actions failed or the
\* queue could not be saved.
C29_OnePassAndFlagReset ==
  /\ Len(passes) <= 1
  /\ passes = <<>> => ~syncInProgress

\* a pass in which an action failed has ended
C29_Witness ==
  /\ passes = <<>>
  /\ ~syncInProgress
  /\ \E i \in 1..Len(queue) :
        queue[i].uid \in attempted /\ queue[i].uid > 0 /\ queue[i].retryCount > 0

\* C30: while the manager is online and nothing is suspended, every action
\* queueAction has added to the queue has been attempted by a sync pass: none
\* waits for a further queueAction call or an offline-to-online transition.
C30_QueuedActionsAttempted ==
  (OfflineIdle /\ isOnline) =>
    \A i \in 1..Len(queue) :
      queue[i].uid \in 1..queued => queue[i].uid \in attempted

====
